---- MODULE Spec2Model ----
(***************************************************************************)
(* PDF outline extractor: src/src/parser.py (PDFParser1A) and              *)
(* src/src/main.py (validate_json_output, process_single_pdf, main).       *)
(*                                                                         *)
(* Text is a sequence of one-character strings.  Font sizes are integers   *)
(* in tenths of a point (parser.py rounds sizes to one decimal), so 12.0   *)
(* is 120; ratio tests are cross-multiplied.  The size sets below avoid    *)
(* the sizes whose ratio is exactly on a threshold (13.8/12 = 1.15), where *)
(* binary floating point and exact arithmetic may disagree.                *)
(***************************************************************************)
EXTENDS Integers, Sequences, FiniteSets, TLC

VARIABLES
    pc,          \* position of the running call
    h_text,      \* _is_potential_heading: text argument
    h_font,      \* _is_potential_heading: font_size argument (0: None)
    h_body,      \* _is_potential_heading: body_size argument (0: None)
    h_ret,       \* _is_potential_heading: returned boolean
    font_stats,  \* _classify_heading_levels: argument, buckets in insertion order
    heading_ret, \* _classify_heading_levels: returned value
    parsed_data,    \* validate_json_output: argument
    validated_data, \* validate_json_output: returned record
    pages,       \* _parse_with_pdfminer: the layout extract_pages returned
    result,      \* what _parse_with_pdfminer returned: a record or None
    pdf_path,    \* parse: argument
    ocr_result,  \* parse: what _parse_with_ocr returned, None before the call
    parse_ret,   \* parse: returned record
    native_calls, \* parse: calls of _parse_with_pdfminer so far
    ocr_calls,   \* parse: calls of _parse_with_ocr so far
    listing,     \* main: the names os.listdir(input_dir) returns
    blocked,     \* main: names in output_dir that cannot be opened for writing
    pdf_files,   \* main: the sorted list of discovered names
    file_idx,    \* main: position of the for loop in pdf_files
    out_files,   \* main: the files written in output_dir, name -> record
    all_parsed_data, \* main: the records process_single_pdf returned
    proc_ret     \* process_single_pdf: the record it returns

vars == <<pc, h_text, h_font, h_body, h_ret, font_stats, heading_ret,
          parsed_data, validated_data, pages, result,
          pdf_path, ocr_result, parse_ret, native_calls, ocr_calls,
          listing, blocked, pdf_files, file_idx, out_files, all_parsed_data,
          proc_ret>>

batchVars == <<listing, blocked, pdf_files, file_idx, out_files,
               all_parsed_data, proc_ret>>

parseVars == <<pdf_path, ocr_result, parse_ret, native_calls, ocr_calls>>

nativeVars == <<pages, result>>

valVars == <<parsed_data, validated_data>>

classVars == <<font_stats, heading_ret>>

headVars == <<h_text, h_font, h_body, h_ret>>

(***************************************************************************)
(* Characters                                                              *)
(***************************************************************************)
UpperSeq == <<"A","B","C","D","E","F","G","H","I","J","K","L","M",
              "N","O","P","Q","R","S","T","U","V","W","X","Y","Z">>

LowerSeq == <<"a","b","c","d","e","f","g","h","i","j","k","l","m",
              "n","o","p","q","r","s","t","u","v","w","x","y","z">>

Range(s) == {s[i] : i \in 1..Len(s)}

UpperAZ == Range(UpperSeq)

LowerAZ == Range(LowerSeq)

Digits == {"0","1","2","3","4","5","6","7","8","9"}

Whitespace == {" ", "\t", "\n"}

\* str.lower() on one character
LowerChar(c) ==
    IF c \in UpperAZ
    THEN LowerSeq[CHOOSE i \in 1..Len(UpperSeq) : UpperSeq[i] = c]
    ELSE c

\* str.lower()
Lower(s) == [i \in 1..Len(s) |-> LowerChar(s[i])]

\* str.strip(): leading and trailing whitespace removed
Strip(s) ==
    LET keep == {i \in 1..Len(s) : s[i] \notin Whitespace}
    IN  IF keep = {} THEN <<>>
        ELSE LET lo == CHOOSE i \in keep : \A j \in keep : i <= j
                 hi == CHOOSE i \in keep : \A j \in keep : j <= i
             IN  SubSeq(s, lo, hi)

\* len(text.split()): the number of maximal runs of non-whitespace
WordCount(s) ==
    Cardinality({i \in 1..Len(s) :
        s[i] \notin Whitespace /\ (i = 1 \/ s[i-1] \in Whitespace)})

\* s[from..to] is non-empty and all in class
AllIn(s, from, to, class) ==
    from <= to /\ to <= Len(s) /\ \A k \in from..to : s[k] \in class

\* s starts with the literal lit
StartsWith(s, lit) ==
    Len(s) >= Len(lit) /\ SubSeq(s, 1, Len(lit)) = lit

\* str.endswith
EndsWith(s, lit) ==
    Len(s) >= Len(lit) /\ SubSeq(s, Len(s) - Len(lit) + 1, Len(s)) = lit

(***************************************************************************)
(* exclusion_patterns, each used with re.match(pattern, text, IGNORECASE): *)
(* re.match anchors the pattern at the start of the text.                  *)
(***************************************************************************)
\* r'^\d+$'
ExclPureNumber(s) == AllIn(s, 1, Len(s), Digits)

\* r'^page\s+\d+$'
ExclPageNumber(s) ==
    /\ Len(s) >= 4 /\ Lower(SubSeq(s, 1, 4)) = <<"p","a","g","e">>
    /\ \E k \in 5..Len(s) :
          AllIn(s, 5, k, Whitespace) /\ AllIn(s, k + 1, Len(s), Digits)

\* r'^www\.'
ExclUrl(s) == Len(s) >= 4 /\ Lower(SubSeq(s, 1, 4)) = <<"w","w","w",".">>

\* r'@' under re.match: the text starts with "@"
ExclEmail(s) == StartsWith(s, <<"@">>)

\* r'^\([^)]+\)$'
ExclParenthetical(s) ==
    /\ Len(s) >= 3
    /\ s[1] = "(" /\ s[Len(s)] = ")"
    /\ \A k \in 2..(Len(s) - 1) : s[k] # ")"

exclusion_patterns(s) ==
    \/ ExclPureNumber(s)
    \/ ExclPageNumber(s)
    \/ ExclUrl(s)
    \/ ExclEmail(s)
    \/ ExclParenthetical(s)

(***************************************************************************)
(* heading_patterns, each used with re.match(pattern, text)                *)
(***************************************************************************)
\* r'^[A-Z][A-Z\s&-]+$'
HeadAllCaps(s) ==
    /\ Len(s) >= 2
    /\ s[1] \in UpperAZ
    /\ AllIn(s, 2, Len(s), UpperAZ \cup Whitespace \cup {"&", "-"})

\* r'^\d+\.\s+[A-Z]'
HeadNumbered(s) ==
    \E k \in 1..Len(s) : \E m \in (k + 2)..Len(s) :
        /\ AllIn(s, 1, k, Digits)
        /\ s[k + 1] = "."
        /\ AllIn(s, k + 2, m, Whitespace)
        /\ m + 1 <= Len(s) /\ s[m + 1] \in UpperAZ

\* (?:\s+[A-Z][a-z]*)*:?$ matched from position i
RECURSIVE TitleCaseRest(_, _)
TitleCaseRest(s, i) ==
    \/ i > Len(s)
    \/ i = Len(s) /\ s[i] = ":"
    \/ /\ i <= Len(s)
       /\ s[i] \in Whitespace
       /\ \E j \in (i + 1)..Len(s) :
            /\ AllIn(s, i, j - 1, Whitespace)
            /\ s[j] \in UpperAZ
            /\ \E e \in j..Len(s) :
                 /\ \A k \in (j + 1)..e : s[k] \in LowerAZ
                 /\ TitleCaseRest(s, e + 1)

\* r'^[A-Z][a-z]+(?:\s+[A-Z][a-z]*)*:?$'
HeadTitleCase(s) ==
    /\ Len(s) >= 2
    /\ s[1] \in UpperAZ
    /\ \E e \in 2..Len(s) : AllIn(s, 2, e, LowerAZ) /\ TitleCaseRest(s, e + 1)

\* r'^[IVX]+\.\s+'
HeadRoman(s) ==
    \E k \in 1..Len(s) :
        /\ AllIn(s, 1, k, {"I", "V", "X"})
        /\ k + 2 <= Len(s)
        /\ s[k + 1] = "." /\ s[k + 2] \in Whitespace

\* r'^<word>\s+\d+' for the literal words Chapter and Section
HeadWordNumber(s, word) ==
    /\ StartsWith(s, word)
    /\ \E m \in (Len(word) + 1)..Len(s) :
          /\ AllIn(s, Len(word) + 1, m, Whitespace)
          /\ m + 1 <= Len(s) /\ s[m + 1] \in Digits

heading_patterns(s) ==
    \/ HeadAllCaps(s)
    \/ HeadNumbered(s)
    \/ HeadTitleCase(s)
    \/ HeadRoman(s)
    \/ HeadWordNumber(s, <<"C","h","a","p","t","e","r">>)
    \/ HeadWordNumber(s, <<"S","e","c","t","i","o","n">>)

(***************************************************************************)
(* _is_potential_heading(text, font_size=None, body_size=None)             *)
(* A size of 0 stands for None: both are falsy in `if font_size and ...`.  *)
(***************************************************************************)
MaxHeadingChars == 200

MaxHeadingWords == 20

ColonMaxWords == 5

ShortMaxWords == 8

_is_potential_heading(text, font_size, body_size) ==
    LET t == Strip(text)
    IN  IF Len(t) < 2 THEN FALSE
        ELSE IF exclusion_patterns(t) THEN FALSE
        ELSE IF Len(t) > MaxHeadingChars \/ WordCount(t) > MaxHeadingWords
             THEN FALSE
        ELSE IF heading_patterns(t) THEN TRUE
        ELSE IF font_size # 0 /\ body_size # 0 /\ font_size * 10 > body_size * 11
             THEN TRUE
        ELSE IF t[Len(t)] = ":" /\ WordCount(t) <= ColonMaxWords THEN TRUE
        ELSE IF WordCount(t) <= ShortMaxWords /\ t[1] \in UpperAZ THEN TRUE
        ELSE FALSE

(***************************************************************************)
(* _classify_heading_levels(font_stats)                                    *)
(* font_stats is the dict built by _extract_font_statistics: a sequence of *)
(* buckets [size, count] with distinct sizes, in insertion order.          *)
(***************************************************************************)
LevelName == <<"H1", "H2", "H3">>

\* `return {}`: one empty dict, not a (heading_map, body_font_size) pair
EmptyDict == [kind |-> "dict", heading_map |-> <<>>, body_font_size |-> 0]

BucketSizes(fs) == {fs[i].size : i \in 1..Len(fs)}

CountOf(fs, size) == (fs[CHOOSE i \in 1..Len(fs) : fs[i].size = size]).count

\* sorted(..., key=size, reverse=True), as the sequence of sizes
RECURSIVE SortDesc(_)
SortDesc(S) ==
    IF S = {} THEN <<>>
    ELSE LET m == CHOOSE x \in S : \A y \in S : y <= x
         IN  <<m>> \o SortDesc(S \ {m})

\* max(font_stats.items(), key=count): the first bucket with the top count
BodyIndex(fs) ==
    CHOOSE i \in 1..Len(fs) :
        /\ \A j \in 1..Len(fs) : fs[j].count <= fs[i].count
        /\ \A j \in 1..(i - 1) : fs[j].count < fs[i].count

\* size_ratio > 1.15 and count < body count * 0.3, with the ratio test dropped
AdmitsCountOnly(size, count, body_size, body_count) ==
    count * 10 < body_count * 3

\* size_ratio > 1.15 and stats['count'] < body_font_candidate[1]['count'] * 0.3
Admits(size, count, body_size, body_count) ==
    size * 100 > body_size * 115 /\ count * 10 < body_count * 3

\* the for loop over sorted_fonts from position i
RECURSIVE ClassifyWalk(_, _, _, _, _)
ClassifyWalk(fs, sorted, i, level_counter, heading_map) ==
    IF i > Len(sorted) THEN heading_map
    ELSE LET b == fs[BodyIndex(fs)]
             size == sorted[i]
         IN  IF Admits(size, CountOf(fs, size), b.size, b.count)
             THEN IF level_counter <= 3
                  THEN ClassifyWalk(fs, sorted, i + 1, level_counter + 1,
                           heading_map @@ (size :> LevelName[level_counter]))
                  ELSE heading_map                       \* break
             ELSE ClassifyWalk(fs, sorted, i + 1, level_counter, heading_map)

\* the loop stopping at the first size that fails the admission test
RECURSIVE StrictPrefixWalk(_, _, _, _, _)
StrictPrefixWalk(fs, sorted, i, level_counter, heading_map) ==
    IF i > Len(sorted) THEN heading_map
    ELSE LET b == fs[BodyIndex(fs)]
             size == sorted[i]
         IN  IF Admits(size, CountOf(fs, size), b.size, b.count)
                /\ level_counter <= 3
             THEN StrictPrefixWalk(fs, sorted, i + 1, level_counter + 1,
                      heading_map @@ (size :> LevelName[level_counter]))
             ELSE heading_map

ClassifyStrictPrefix(fs) ==
    IF fs = <<>> THEN EmptyDict
    ELSE [kind |-> "tuple",
          heading_map |-> StrictPrefixWalk(fs, SortDesc(BucketSizes(fs)), 1, 1, <<>>),
          body_font_size |-> fs[BodyIndex(fs)].size]

_classify_heading_levels(fs) ==
    IF fs = <<>> THEN EmptyDict
    ELSE [kind |-> "tuple",
          heading_map |-> ClassifyWalk(fs, SortDesc(BucketSizes(fs)), 1, 1, <<>>),
          body_font_size |-> fs[BodyIndex(fs)].size]

(***************************************************************************)
(* Python values handed to validate_json_output (main.py).  A value is a   *)
(* tagged record: t is the type, s the text of a str, n the number of an   *)
(* int or bool, or the tenths of a finite float.                           *)
(***************************************************************************)
PyStr(s) == [t |-> "str", s |-> s, n |-> 0]

PyInt(n) == [t |-> "int", s |-> <<>>, n |-> n]

PyFloat(tenths) == [t |-> "float", s |-> <<>>, n |-> tenths]

PyBool(b) == [t |-> "bool", s |-> <<>>, n |-> IF b THEN 1 ELSE 0]

PyNone == [t |-> "none", s |-> <<>>, n |-> 0]

DigitSeq == <<"0","1","2","3","4","5","6","7","8","9">>

\* str(n) for an int
RECURSIVE IntToStr(_)
IntToStr(n) ==
    IF n < 0 THEN <<"-">> \o IntToStr(0 - n)
    ELSE IF n < 10 THEN <<DigitSeq[n + 1]>>
    ELSE IntToStr(n \div 10) \o <<DigitSeq[(n % 10) + 1]>>

\* int(x) for a finite float given in tenths: truncation toward zero
FloatToInt(tenths) ==
    IF tenths >= 0 THEN tenths \div 10 ELSE 0 - ((0 - tenths) \div 10)

\* str(v)
Str(v) ==
    CASE v.t = "str" -> v.s
      [] v.t = "int" -> IntToStr(v.n)
      [] v.t = "bool" -> IF v.n = 1 THEN <<"T","r","u","e">>
                         ELSE <<"F","a","l","s","e">>
      [] v.t = "none" -> <<"N","o","n","e">>
      [] v.t = "float" ->
            (IF v.n < 0 THEN <<"-">> ELSE <<>>)
            \o IntToStr(FloatToInt(IF v.n < 0 THEN 0 - v.n ELSE v.n))
            \o <<".">> \o <<DigitSeq[((IF v.n < 0 THEN 0 - v.n ELSE v.n) % 10) + 1]>>

\* bool(v)
Truthy(v) ==
    CASE v.t = "str" -> v.s # <<>>
      [] v.t = "none" -> FALSE
      [] OTHER -> v.n # 0

\* the level strings the validator lets through
ValidLevels == {<<"H","1">>, <<"H","2">>, <<"H","3">>}

LevelString(chars) ==
    CASE chars = <<"H","1">> -> "H1"
      [] chars = <<"H","2">> -> "H2"
      [] chars = <<"H","3">> -> "H3"

ItemKeys == {"level", "text", "page"}

\* the page conversion with a non-numeric page passed through as 0
PageOfNoDefault(page) ==
    CASE page.t = "int" -> page.n
      [] page.t = "bool" -> page.n
      [] page.t = "float" -> FloatToInt(page.n)
      [] OTHER -> 0

\* int(item['page']) if isinstance(item['page'], (int, float)) else 1
\* (bool is a subclass of int)
PageOf(page) ==
    CASE page.t = "int" -> page.n
      [] page.t = "bool" -> page.n
      [] page.t = "float" -> FloatToInt(page.n)
      [] OTHER -> 1

\* validated_item of main.py:37-41
ValidatedItem(item) ==
    [level |-> Str(item.level), text |-> Strip(Str(item.text)),
     page |-> PageOf(item.page)]

\* the loop of main.py:34-45 from position i
RECURSIVE ValidateOutline(_, _)
ValidateOutline(outline, i) ==
    IF i > Len(outline) THEN <<>>
    ELSE LET item == outline[i]
             rest == ValidateOutline(outline, i + 1)
         IN  IF item.isdict /\ ItemKeys \subseteq item.has
             THEN LET v == ValidatedItem(item)
                  IN  IF v.text # <<>> /\ v.level \in ValidLevels
                      THEN <<[level |-> LevelString(v.level), text |-> v.text,
                              page |-> v.page]>> \o rest
                      ELSE rest
             ELSE rest

EmptyRecord == [title |-> <<>>, outline |-> <<>>]

\* a value that is not a dict
NoData == [isdict |-> FALSE, title |-> PyNone, outline_is_list |-> FALSE,
           outline |-> <<>>]

validate_json_output(data) ==
    IF ~data.isdict THEN EmptyRecord
    ELSE LET title == IF data.title.t = "str" THEN data.title.s
                      ELSE IF Truthy(data.title) THEN Str(data.title) ELSE <<>>
             outline == IF data.outline_is_list THEN data.outline ELSE <<>>
         IN  [title |-> Strip(title), outline |-> ValidateOutline(outline, 1)]

(***************************************************************************)
(* Native path (parser.py:50-86, 161-286).  A layout is [npages, elems]:   *)
(* the elements of the document in page order, each with its page index    *)
(* (0-based, as enumerate gives it).  An element carries its raw text, the *)
(* sizes of its LTChar children in hundredths of a point, and its y0.      *)
(***************************************************************************)
None == [none |-> TRUE, title |-> <<>>, outline |-> <<>>]

\* extract_pages raised
NoLayout == [raises |-> TRUE, npages |-> 0, elems |-> <<>>]

Record(title, outline) == [none |-> FALSE, title |-> title, outline |-> outline]

\* round(size, 1): hundredths to tenths (the sizes used are never on a half)
Round1(h) == (h + 5) \div 10

\* Counter(sizes).most_common(1)[0][0]: the most frequent rounded size, the
\* first encountered on a tie
DominantSize(chars) ==
    LET r == [i \in 1..Len(chars) |-> Round1(chars[i])]
        cnt(v) == Cardinality({i \in 1..Len(r) : r[i] = v})
        first(v) == CHOOSE i \in 1..Len(r) : r[i] = v /\ \A j \in 1..(i - 1) : r[j] # v
        best == CHOOSE v \in Range(r) :
                    \A w \in Range(r) :
                        cnt(w) < cnt(v) \/ (cnt(w) = cnt(v) /\ first(v) <= first(w))
    IN  best

\* the elements _extract_font_statistics and the outline loop look at:
\* text containers with non-blank text and at least one LTChar
Live(e) == e.is_text /\ Strip(e.text) # <<>> /\ e.chars # <<>>

\* _extract_font_statistics: buckets in order of first appearance
RECURSIVE ExtractFontStatistics(_, _, _)
ExtractFontStatistics(elems, i, font_data) ==
    IF i > Len(elems) THEN font_data
    ELSE LET e == elems[i]
         IN  IF ~Live(e) THEN ExtractFontStatistics(elems, i + 1, font_data)
             ELSE LET d == DominantSize(e.chars)
                      w == WordCount(Strip(e.text))
                      at == {k \in 1..Len(font_data) : font_data[k].size = d}
                      next == IF at = {}
                              THEN Append(font_data, [size |-> d, count |-> w])
                              ELSE [font_data EXCEPT
                                       ![CHOOSE k \in at : TRUE].count = @ + w]
                  IN  ExtractFontStatistics(elems, i + 1, next)

_extract_font_statistics(layout) == ExtractFontStatistics(layout.elems, 1, <<>>)

Sum(f) ==
    LET RECURSIVE S(_)
        S(i) == IF i = 0 THEN 0 ELSE f[i] + S(i - 1)
    IN  S(Len(f))

Product(f) ==
    LET RECURSIVE P(_)
        P(i) == IF i = 0 THEN 1 ELSE f[i] * P(i - 1)
    IN  P(Len(f))

Abs(x) == IF x < 0 THEN 0 - x ELSE x

IdealLength == 6

\* length_score, with the penalty for more than 15 words
LengthScore(words) ==
    (IF 20 - Abs(words - IdealLength) * 2 > 0
     THEN 20 - Abs(words - IdealLength) * 2 ELSE 0)
    - (IF words > 15 THEN 20 ELSE 0)

\* candidates of _extract_title_candidates: the first page's elements with
\* text and characters, in page order
TitleCandidates(layout) ==
    SelectSeq(layout.elems, LAMBDA e : e.page = 0 /\ Live(e))

\* score of candidate c, times max_font * max_y * P, which is positive:
\* 40 * (avg / max_font) + 30 * (y / max_y) + length score, where avg is
\* Sum(c.chars) / Len(c.chars), max_font is Sm / Nm, max_y is Y and P is the
\* product of all candidates' character counts
ScaledScore(c, Sm, Nm, Y, P) ==
    40 * Sum(c.chars) * Nm * (P \div Len(c.chars)) * Y
    + 30 * c.y0 * Sm * P
    + LengthScore(WordCount(Strip(c.text))) * Sm * Y * P

\* _extract_title_candidates: the text of the first candidate with the top
\* score, "" without candidates
_extract_title_candidates(layout) ==
    LET cands == TitleCandidates(layout)
    IN  IF cands = <<>> THEN <<>>
        ELSE LET m == CHOOSE k \in 1..Len(cands) : \A j \in 1..Len(cands) :
                          Sum(cands[j].chars) * Len(cands[k].chars)
                              <= Sum(cands[k].chars) * Len(cands[j].chars)
                 Y == CHOOSE y \in {cands[k].y0 : k \in 1..Len(cands)} :
                          \A k \in 1..Len(cands) : cands[k].y0 <= y
                 P == Product([k \in 1..Len(cands) |-> Len(cands[k].chars)])
                 score == [k \in 1..Len(cands) |->
                              ScaledScore(cands[k], Sum(cands[m].chars),
                                          Len(cands[m].chars), Y, P)]
                 best == CHOOSE k \in 1..Len(cands) :
                     /\ \A j \in 1..Len(cands) : score[j] <= score[k]
                     /\ \A j \in 1..(k - 1) : score[j] < score[k]
             IN  Strip(cands[best].text)

\* the level of the outline loop's fallback (parser.py:264-272)
FallbackLevel(text, dominant_size, body_font_size) ==
    IF ~_is_potential_heading(text, dominant_size, body_font_size) THEN ""
    ELSE IF body_font_size <= 0 THEN ""              \* size_ratio = 1
    ELSE IF dominant_size * 10 > body_font_size * 15 THEN "H1"
    ELSE IF dominant_size * 100 > body_font_size * 125 THEN "H2"
    ELSE IF dominant_size * 10 > body_font_size * 11 THEN "H3"
    ELSE ""

\* `if heading_level and text != title` without the comparison to the title
EmitsAnyLevel(heading_level, text, title) == heading_level # ""

\* parser.py:274: if heading_level and text != title
Emits(heading_level, text, title) == heading_level # "" /\ text # title

\* `if not text or text in seen_headings: continue` without the seen test
SkipsBlankOnly(text, seen) == text = <<>>

\* parser.py:246: if not text or text in seen_headings: continue
Skips(text, seen) == text = <<>> \/ text \in seen

\* the outline loop of _parse_with_pdfminer from element i
RECURSIVE NativeOutline(_, _, _, _, _, _, _)
NativeOutline(elems, i, heading_map, body_font_size, title, outline, seen) ==
    IF i > Len(elems) THEN outline
    ELSE LET e == elems[i]
             text == Strip(e.text)
         IN  IF ~e.is_text \/ Skips(text, seen) \/ e.chars = <<>>
             THEN NativeOutline(elems, i + 1, heading_map, body_font_size, title,
                                outline, seen)
             ELSE LET d == DominantSize(e.chars)
                      level == IF d \in DOMAIN heading_map THEN heading_map[d]
                               ELSE FallbackLevel(text, d, body_font_size)
                  IN  IF Emits(level, text, title)
                      THEN NativeOutline(elems, i + 1, heading_map, body_font_size,
                               title,
                               Append(outline, [level |-> level, text |-> text,
                                                page |-> e.page + 1]),
                               seen \cup {text})
                      ELSE NativeOutline(elems, i + 1, heading_map, body_font_size,
                               title, outline, seen)

\* _parse_with_pdfminer on the outcome of extract_pages: "raises", or a layout.
\* Unpacking the classifier's `{}` into two names raises ValueError, and a
\* max_y of 0 raises ZeroDivisionError; both end in the except clause.
_parse_with_pdfminer(extracted) ==
    IF extracted.raises THEN None
    ELSE IF extracted.npages = 0 THEN None
    ELSE LET cl == _classify_heading_levels(_extract_font_statistics(extracted))
             cands == TitleCandidates(extracted)
         IN  IF cl.kind # "tuple" THEN None
             ELSE IF cands # <<>> /\ \A k \in 1..Len(cands) : cands[k].y0 = 0
                  THEN None
             ELSE LET title == _extract_title_candidates(extracted)
                  IN  Record(title,
                             NativeOutline(extracted.elems, 1, cl.heading_map,
                                           cl.body_font_size, title, <<>>, {}))

(***************************************************************************)
(* OCR path (parser.py:288-361).  The outcome of rasterizing and OCR is    *)
(* "raises" or one list of detections per page; a detection carries its    *)
(* raw text, its confidence in percent and its (axis-aligned) bounding box.*)
(***************************************************************************)
NoImages == [raises |-> TRUE, images |-> <<>>]

ConfidencePercent == 70

\* 'area': width * height of the bounding box
Area(b) == (b.x1 - b.x0) * (b.y1 - b.y0)

\* twice 'y_center', the mean of the four corners' y
YCenter2(b) == b.y0 + b.y1

\* text_blocks.sort(key=lambda x: -x['y_center']): stable, descending
RECURSIVE SortByYDesc(_)
SortByYDesc(blocks) ==
    IF blocks = <<>> THEN <<>>
    ELSE LET k == CHOOSE i \in 1..Len(blocks) :
                 /\ \A j \in 1..Len(blocks) : YCenter2(blocks[j]) <= YCenter2(blocks[i])
                 /\ \A j \in 1..(i - 1) : YCenter2(blocks[j]) < YCenter2(blocks[i])
         IN  <<blocks[k]>> \o
             SortByYDesc(SubSeq(blocks, 1, k - 1) \o SubSeq(blocks, k + 1, Len(blocks)))

\* the text_blocks of one page: detections with confidence > 0.7, text
\* stripped, sorted
TextBlocks(detections) ==
    LET kept == SelectSeq(detections, LAMBDA b : b.confidence > ConfidencePercent)
    IN  SortByYDesc([i \in 1..Len(kept) |->
            [text |-> Strip(kept[i].text), x0 |-> kept[i].x0, x1 |-> kept[i].x1,
             y0 |-> kept[i].y0, y1 |-> kept[i].y1]])

\* max(text_blocks[:3], key=area)['text']: the first of the largest
OcrTitle(text_blocks) ==
    LET n == IF Len(text_blocks) < 3 THEN Len(text_blocks) ELSE 3
        best == CHOOSE k \in 1..n :
                    /\ \A j \in 1..n : Area(text_blocks[j]) <= Area(text_blocks[k])
                    /\ \A j \in 1..(k - 1) : Area(text_blocks[j]) < Area(text_blocks[k])
    IN  text_blocks[best].text

\* text.isupper(): a cased character, and no lowercase one
IsUpperStr(t) ==
    /\ \E i \in 1..Len(t) : t[i] \in UpperAZ
    /\ \A i \in 1..Len(t) : t[i] \notin LowerAZ

\* the level rule of parser.py:343-348
OcrLevel(t) ==
    IF (Len(t) >= 2 /\ t[1] \in UpperAZ /\ AllIn(t, 2, Len(t), UpperAZ \cup Whitespace))
       \/ IsUpperStr(t)
    THEN "H1"
    ELSE IF (\E k \in 1..Len(t) : AllIn(t, 1, k, Digits) /\ k + 1 <= Len(t)
                                   /\ t[k + 1] = ".")
            \/ EndsWith(t, <<":">>)
    THEN "H2"
    ELSE "H3"

\* the heading test of parser.py:338-340 without `text not in seen_headings`
OcrQualifiesUnseen(text, seen, title) ==
    text # <<>> /\ text # title /\ _is_potential_heading(text, 0, 0)

\* parser.py:338-340
OcrQualifies(text, seen, title) ==
    text # <<>> /\ text \notin seen /\ text # title
    /\ _is_potential_heading(text, 0, 0)

\* the heading loop over one page's text_blocks from block i; returns
\* [outline, seen]
RECURSIVE OcrHeadings(_, _, _, _, _, _)
OcrHeadings(text_blocks, i, page_num, title, outline, seen) ==
    IF i > Len(text_blocks) THEN [outline |-> outline, seen |-> seen]
    ELSE LET text == text_blocks[i].text
         IN  IF OcrQualifies(text, seen, title)
             THEN OcrHeadings(text_blocks, i + 1, page_num, title,
                      Append(outline, [level |-> OcrLevel(text), text |-> text,
                                       page |-> page_num + 1]),
                      seen \cup {text})
             ELSE OcrHeadings(text_blocks, i + 1, page_num, title, outline, seen)

\* the loop over the pages from image p (1-based; page_num is p - 1)
RECURSIVE OcrPages(_, _, _, _, _)
OcrPages(images, p, title, outline, seen) ==
    IF p > Len(images) THEN Record(title, outline)
    ELSE LET text_blocks == TextBlocks(images[p])
             title2 == IF p = 1 /\ title = <<>> /\ text_blocks # <<>>
                       THEN OcrTitle(text_blocks) ELSE title
             h == OcrHeadings(text_blocks, 1, p - 1, title2, outline, seen)
         IN  IF images[p] = <<>>          \* `if result and result[0]` fails
             THEN OcrPages(images, p + 1, title, outline, seen)
             ELSE OcrPages(images, p + 1, title2, h.outline, h.seen)

_parse_with_ocr(ocr) ==
    IF ocr.raises THEN None
    ELSE OcrPages(ocr.images, 1, <<>>, <<>>, {})

(***************************************************************************)
(* parse (parser.py:363-399)                                               *)
(***************************************************************************)
PathSep == "/"

\* os.path.basename: what follows the last separator
Basename(path) ==
    LET seps == {i \in 1..Len(path) : path[i] = PathSep}
    IN  IF seps = {} THEN path
        ELSE SubSeq(path, (CHOOSE i \in seps : \A j \in seps : j <= i) + 1, Len(path))

DotPdf == <<".","p","d","f">>

\* str.replace('.pdf', ''): every occurrence removed, left to right
RECURSIVE RemoveDotPdf(_)
RemoveDotPdf(name) ==
    IF name = <<>> THEN <<>>
    ELSE IF StartsWith(name, DotPdf)
         THEN RemoveDotPdf(SubSeq(name, Len(DotPdf) + 1, Len(name)))
         ELSE <<name[1]>> \o RemoveDotPdf(Tail(name))

\* the fallback condition reduced to `not result`
NeedsOcrOnFailureOnly(res) == res.none

\* parser.py:371: not result or (not result.get('title') and not result.get('outline'))
NeedsOcr(res) == res.none \/ (res.title = <<>> /\ res.outline = <<>>)

\* parser.py:381-387: the first entry of each text is kept
RECURSIVE UniqueOutline(_, _)
UniqueOutline(outline, seen) ==
    IF outline = <<>> THEN <<>>
    ELSE IF Head(outline).text \in seen THEN UniqueOutline(Tail(outline), seen)
    ELSE <<Head(outline)>> \o UniqueOutline(Tail(outline), seen \cup {Head(outline).text})

\* parser.py:376-388
Merged(res, ocr_res) ==
    Record(IF res.title # <<>> THEN res.title ELSE ocr_res.title,
           UniqueOutline(res.outline \o ocr_res.outline, {}))

\* parser.py:393-397
FinalFallback(path) == Record(RemoveDotPdf(Basename(path)), <<>>)

\* what parse returns, given what the native path returned and what the OCR
\* path returned (read only when the OCR path was called)
ParseReturn(path, res, ocr_res) ==
    IF NeedsOcr(res)
    THEN IF ~ocr_res.none
         THEN IF ~res.none THEN Merged(res, ocr_res)
              ELSE ocr_res                   \* result = ocr_result; a dict is truthy
         ELSE IF res.none THEN FinalFallback(path) ELSE res
    ELSE res

\* parse as one call
parse(path, extracted, ocr) ==
    ParseReturn(path, _parse_with_pdfminer(extracted), _parse_with_ocr(ocr))

(***************************************************************************)
(* main and process_single_pdf (main.py:52-163)                            *)
(***************************************************************************)
\* the characters of file names in code point order
Ascii == <<".">> \o DigitSeq \o UpperSeq \o LowerSeq

Ord(c) == CHOOSE i \in 1..Len(Ascii) : Ascii[i] = c

\* a < b for str: at the first difference, or a is a proper prefix of b
StrLess(a, b) ==
    \E k \in 1..(Len(b)) :
        /\ \A j \in 1..(k - 1) : j <= Len(a) /\ a[j] = b[j]
        /\ k - 1 <= Len(a)
        /\ (k > Len(a) \/ Ord(a[k]) < Ord(b[k]))

\* sorted(names)
RECURSIVE Sorted(_)
Sorted(names) ==
    IF names = {} THEN <<>>
    ELSE LET m == CHOOSE x \in names : \A y \in names : x = y \/ StrLess(x, y)
         IN  <<m>> \o Sorted(names \ {m})

\* main.py:120: f.lower().endswith('.pdf')
IsPdfName(f) == EndsWith(Lower(f), DotPdf)

\* os.path.splitext(name)[0] for a name without separators: cut at the last
\* dot, unless only dots come before it
SplitExtRoot(name) ==
    LET dots == {i \in 1..Len(name) :
                    name[i] = "." /\ \E j \in 1..(i - 1) : name[j] # "."}
    IN  IF dots = {} THEN name
        ELSE SubSeq(name, 1, (CHOOSE i \in dots : \A j \in dots : j <= i) - 1)

DotJson == <<".","j","s","o","n">>

\* main.py:133: os.path.splitext(pdf_file)[0] + '.json'
OutputFilename(pdf_file) == SplitExtRoot(pdf_file) \o DotJson

\* main.py:149: 'output.json'
SummaryName == <<"o","u","t","p","u","t">> \o DotJson

LevelChars(level) == CHOOSE c \in ValidLevels : LevelString(c) = level

\* the dict parse returned, as validate_json_output reads it
AsData(rec) ==
    [isdict |-> TRUE, title |-> PyStr(rec.title), outline_is_list |-> TRUE,
     outline |-> [i \in 1..Len(rec.outline) |->
         [isdict |-> TRUE, has |-> ItemKeys,
          level |-> PyStr(LevelChars(rec.outline[i].level)),
          text |-> PyStr(rec.outline[i].text),
          page |-> PyInt(rec.outline[i].page)]]]

\* main.py:131: os.path.join(input_dir, pdf_file)
InputPath(input_dir, pdf_file) == input_dir \o <<PathSep>> \o pdf_file

\* json.dump(record) into the file `name` of output_dir
WriteFile(files, name, record) == (name :> record) @@ files

(***************************************************************************)
(* Inputs the calls are exercised on                                       *)
(***************************************************************************)
MaxTextLen == 3

HeadAlphabet == {"A", "b", "@", "1", " ", ":", "(", ")"}

SeqsUpTo(S, n) == UNION {[1..k -> S] : k \in 0..n}

TIntroduction == <<"I","n","t","r","o","d","u","c","t","i","o","n">>

TBody == <<"a"," ","b","c"," ","d"," ","e"," ","f">>

TBodyCap == <<"T","h","e"," ","c","a","t"," ","s","a","t">>

TRevenue == <<"R","E","V","E","N","U","E"," ","A","N","D">>

TNumbered == <<"1","."," ","I","n","t","r","o">>

TMail == <<"I","n","f","o","@","x",".","i","o">>

TPage == <<"P","a","g","e"," ","4","2">>

TWww == <<"w","w","w",".","x",".","i","o">>

TChapter == <<"C","h","a","p","t","e","r"," ","2">>

TSection == <<"S","e","c","t","i","o","n"," ","3",":">>

TRoman == <<"I","V","."," ","e","n","d">>

TParen == <<"(","s","e","e"," ","a",")">>

TNotes == <<"n","o","t","e","s",":">>

\* a 21-word lowercase sentence
TLong == [i \in 1..41 |-> IF i % 2 = 1 THEN "a" ELSE " "]

CuratedTexts ==
    {TIntroduction, TBody, TBodyCap, TRevenue, TNumbered, TMail, TPage, TWww,
     TChapter, TSection, TRoman, TParen, TNotes, TLong}

HeadTexts == SeqsUpTo(HeadAlphabet, MaxTextLen) \cup CuratedTexts

HeadSizes == {0, 120, 140, 180}

MaxBuckets == 5

ClassSizes == {100, 120, 140, 180, 240, 300}

ClassCounts == {1, 3, 10}

\* sequences of distinct sizes: the keys of the dict in insertion order
DistinctSizeSeqs ==
    {q \in SeqsUpTo(ClassSizes, MaxBuckets) :
        \A i, j \in 1..Len(q) : i # j => q[i] # q[j]}

MaxItems == 2

ValLevels == {PyStr(<<"H","1">>), PyStr(<<"H","3">>), PyStr(<<"H","4">>),
              PyStr(<<"h","1">>)}

ValTexts == {PyStr(<<" ","x"," ">>), PyStr(<<" "," ">>), PyNone}

ValPages == {PyInt(3), PyFloat(27), PyStr(<<"t","h","r","e","e">>),
             PyBool(TRUE)}

ValTitles == {PyStr(<<" ","T"," ">>), PyNone, PyInt(7)}

NonDictItem == [isdict |-> FALSE, has |-> {}, level |-> PyNone, text |-> PyNone,
                page |-> PyNone]

\* dict items with all three keys, with one key missing, and one non-dict item
ValItems ==
    [isdict : {TRUE}, has : {ItemKeys}, level : ValLevels, text : ValTexts,
     page : ValPages]
    \cup {[isdict |-> TRUE, has |-> ItemKeys \ {k}, level |-> PyStr(<<"H","1">>),
           text |-> PyStr(<<" ","x"," ">>), page |-> PyInt(3)] : k \in ItemKeys}
    \cup {NonDictItem}

MaxPages == 2

MaxElems == 3

RawIntroduction == TIntroduction \o <<"\n">>

RawBody == TBody \o <<"\n">>

Elem(is_text, text, chars, y0) ==
    [is_text |-> is_text, text |-> text, chars |-> chars, y0 |-> y0]

\* what a page can hold: the heading at 18 point at two heights, body text at
\* 12 point, body text of mixed sizes (12.04, 18, 12: dominant 12.0), and a
\* block of blank text, which the analysis skips
Elements ==
    {Elem(TRUE, RawIntroduction, <<1800>>, 7), Elem(TRUE, RawIntroduction, <<1800>>, 3),
     Elem(TRUE, RawBody, <<1200>>, 7),
     Elem(TRUE, RawBody, <<1204, 1800, 1200>>, 3),
     Elem(TRUE, <<" ", "\n">>, <<1200>>, 3)}

WithPage(e, page) ==
    [is_text |-> e.is_text, text |-> e.text, chars |-> e.chars, y0 |-> e.y0,
     page |-> page]

\* the page of each of n elements in reading order, over np pages
PageSeqs(n, np) ==
    {pg \in [1..n -> 0..(np - 1)] : \A i \in 1..(n - 1) : pg[i] <= pg[i + 1]}

\* what extract_pages returns: np pages holding the elements es
Layout(np, es, pg) ==
    [raises |-> FALSE, npages |-> np,
     elems |-> [i \in 1..Len(es) |-> WithPage(es[i], pg[i])]]

\* every value _parse_with_pdfminer can return: extract_pages raises, or
\* returns up to maxp pages holding up to maxe elements in all
NativeResults(maxp, maxe) ==
    {_parse_with_pdfminer(NoLayout)} \cup
    UNION {UNION {{_parse_with_pdfminer(Layout(np, es, pg)) :
                      pg \in PageSeqs(n, np)} : es \in [1..n -> Elements]} :
           np \in 0..maxp, n \in 0..maxe}

MaxOcrPages == 2

MaxOcrBlocks == 3

Detection(text, confidence, x0, x1, y0, y1) ==
    [text |-> text, confidence |-> confidence, x0 |-> x0, x1 |-> x1,
     y0 |-> y0, y1 |-> y1]

\* what the OCR engine can detect: a large title-case line, a small all-caps
\* line above it, a colon-terminated line, a low-confidence line, blank text
Detections ==
    {Detection(TIntroduction, 90, 0, 8, 2, 4),
     Detection(TRevenue, 95, 0, 4, 6, 8),
     Detection(<<" ">> \o TNotes, 80, 0, 2, 1, 2),
     Detection(TIntroduction, 60, 0, 9, 8, 9),
     Detection(<<" ">>, 90, 0, 1, 0, 1)}

\* what rasterizing and OCR return: np page images holding the detections ds
OcrLayout(np, ds, pg) ==
    [raises |-> FALSE,
     images |-> [q \in 1..np |->
         LET idx == {i \in 1..Len(ds) : pg[i] + 1 = q}
         IN  IF idx = {} THEN <<>>
             ELSE SubSeq(ds, CHOOSE i \in idx : \A j \in idx : i <= j,
                             CHOOSE i \in idx : \A j \in idx : j <= i)]]

\* every value _parse_with_ocr can return: rasterizing raises, or there are up
\* to maxp page images holding up to maxb detections in all
OcrResults(maxp, maxb) ==
    {_parse_with_ocr(NoImages)} \cup
    UNION {UNION {{_parse_with_ocr(OcrLayout(np, ds, pg)) :
                      pg \in PageSeqs(n, np)} : ds \in [1..n -> Detections]} :
           np \in 0..maxp, n \in 0..maxb}

InputDir == <<"p","d","f","s">>

FA == <<"a",".","p","d","f">>

FUpper == <<"a",".","P","D","F">>

FDouble == <<"a",".","p","d","f",".","p","d","f">>

FOutput == <<"o","u","t","p","u","t",".","p","d","f">>

FText == <<"a",".","t","x","t">>

\* the names the input directory can hold
FileNames == {FA, FUpper, FDouble, FOutput, FText}

\* the discovered names parse is called on by itself
PathNames == {f \in {FA, FUpper, FDouble} : IsPdfName(f)}

\* documents of a batch: a text PDF with a heading below its body text, a
\* scanned PDF, a scanned PDF in which OCR detects nothing, an unreadable file
BatchDocs ==
    {[layout |-> Layout(1, <<Elem(TRUE, RawBody, <<1200>>, 7),
                             Elem(TRUE, RawIntroduction, <<1800>>, 3)>>, <<0, 0>>),
      ocr |-> NoImages],
     [layout |-> NoLayout,
      ocr |-> OcrLayout(1, <<Detection(TRevenue, 95, 0, 4, 6, 8),
                             Detection(TIntroduction, 90, 0, 8, 2, 4)>>, <<0, 0>>)],
     [layout |-> NoLayout, ocr |-> OcrLayout(1, <<>>, <<>>)],
     [layout |-> NoLayout, ocr |-> NoImages]}

\* the names of output_dir that may be unwritable (a directory of that name)
BlockedNames == {OutputFilename(FA), SummaryName}

(***************************************************************************)
(* Variables of the calls that are not running                             *)
(***************************************************************************)
HeadIdle == h_text = <<>> /\ h_font = 0 /\ h_body = 0 /\ h_ret = FALSE

ClassIdle == font_stats = <<>> /\ heading_ret = EmptyDict

ValIdle == parsed_data = NoData /\ validated_data = EmptyRecord

NativeIdle == pages = NoLayout /\ result = None

ParseIdle ==
    /\ pdf_path = <<>> /\ ocr_result = None /\ parse_ret = None
    /\ native_calls = 0 /\ ocr_calls = 0

BatchIdle ==
    /\ listing = {} /\ blocked = {} /\ pdf_files = <<>> /\ file_idx = 0
    /\ out_files = <<>> /\ all_parsed_data = <<>> /\ proc_ret = EmptyRecord

(***************************************************************************)
(* SpecHeading: one call of _is_potential_heading                          *)
(***************************************************************************)
InitHeading ==
    /\ pc = "heading"
    /\ h_text \in HeadTexts
    /\ h_font \in HeadSizes
    /\ h_body \in {0, 120}
    /\ h_ret = FALSE
    /\ ClassIdle /\ ValIdle /\ NativeIdle /\ ParseIdle /\ BatchIdle

CallIsPotentialHeading ==
    /\ pc = "heading"
    /\ h_ret' = _is_potential_heading(h_text, h_font, h_body)
    /\ pc' = "heading_done"
    /\ UNCHANGED <<h_text, h_font, h_body>>
    /\ UNCHANGED <<classVars, valVars, nativeVars, parseVars, batchVars>>

NextHeading == CallIsPotentialHeading

SpecHeading == InitHeading /\ [][NextHeading]_vars

(***************************************************************************)
(* SpecClassify: one call of _classify_heading_levels                      *)
(***************************************************************************)
InitClassify ==
    /\ pc = "classify"
    /\ \E q \in DistinctSizeSeqs : \E c \in [1..Len(q) -> ClassCounts] :
          font_stats = [i \in 1..Len(q) |-> [size |-> q[i], count |-> c[i]]]
    /\ heading_ret = EmptyDict
    /\ HeadIdle /\ ValIdle /\ NativeIdle /\ ParseIdle /\ BatchIdle

CallClassifyHeadingLevels ==
    /\ pc = "classify"
    /\ heading_ret' = _classify_heading_levels(font_stats)
    /\ pc' = "classify_done"
    /\ UNCHANGED font_stats
    /\ UNCHANGED <<headVars, valVars, nativeVars, parseVars, batchVars>>

NextClassify == CallClassifyHeadingLevels

SpecClassify == InitClassify /\ [][NextClassify]_vars

(***************************************************************************)
(* SpecValidate: one call of validate_json_output                          *)
(***************************************************************************)
InitValidate ==
    /\ pc = "validate"
    /\ \E ti \in ValTitles : \E isl \in BOOLEAN : \E d \in BOOLEAN :
       \E o \in SeqsUpTo(ValItems, MaxItems) :
          /\ (~isl \/ ~d) => o = <<>>
          /\ parsed_data = [isdict |-> d, title |-> ti, outline_is_list |-> isl,
                            outline |-> o]
    /\ validated_data = EmptyRecord
    /\ HeadIdle /\ ClassIdle /\ NativeIdle /\ ParseIdle /\ BatchIdle

CallValidateJsonOutput ==
    /\ pc = "validate"
    /\ validated_data' = validate_json_output(parsed_data)
    /\ pc' = "validate_done"
    /\ UNCHANGED parsed_data
    /\ UNCHANGED <<headVars, classVars, nativeVars, parseVars, batchVars>>

NextValidate == CallValidateJsonOutput

SpecValidate == InitValidate /\ [][NextValidate]_vars

(***************************************************************************)
(* SpecNative: one call of _parse_with_pdfminer                            *)
(***************************************************************************)
InitNative ==
    /\ pc = "native"
    /\ pages = NoLayout
    /\ result = None
    /\ HeadIdle /\ ClassIdle /\ ValIdle /\ ParseIdle /\ BatchIdle

CallParseWithPdfminer ==
    /\ pc = "native"
    /\ \/ pages' = NoLayout
       \/ \E np \in 0..MaxPages : \E n \in 0..MaxElems :
          \E es \in [1..n -> Elements] : \E pg \in PageSeqs(n, np) :
             pages' = Layout(np, es, pg)
    /\ result' = _parse_with_pdfminer(pages')
    /\ pc' = "native_done"
    /\ UNCHANGED <<headVars, classVars, valVars, parseVars, batchVars>>

NextNative == CallParseWithPdfminer

SpecNative == InitNative /\ [][NextNative]_vars

(***************************************************************************)
(* SpecParse: one call of parse(pdf_path), step by step                    *)
(***************************************************************************)
InitParse ==
    /\ pc = "parse"
    /\ \E f \in PathNames : pdf_path = InputPath(InputDir, f)
    /\ result = None /\ ocr_result = None /\ parse_ret = None
    /\ native_calls = 0 /\ ocr_calls = 0
    /\ pages = NoLayout
    /\ HeadIdle /\ ClassIdle /\ ValIdle /\ BatchIdle

\* parser.py:368
ParseWithPdfminer ==
    /\ pc = "parse"
    /\ result' \in NativeResults(MaxPages, MaxElems)
    /\ native_calls' = native_calls + 1
    /\ pc' = IF NeedsOcr(result') THEN "ocr" ELSE "return"
    /\ UNCHANGED <<pdf_path, ocr_result, parse_ret, ocr_calls, pages>>
    /\ UNCHANGED <<headVars, classVars, valVars, batchVars>>

\* parser.py:372
ParseWithOcr ==
    /\ pc = "ocr"
    /\ ocr_result' \in OcrResults(MaxOcrPages, MaxOcrBlocks)
    /\ ocr_calls' = ocr_calls + 1
    /\ pc' = "return"
    /\ UNCHANGED <<pdf_path, result, parse_ret, native_calls, pages>>
    /\ UNCHANGED <<headVars, classVars, valVars, batchVars>>

\* parser.py:373-399
ParseReturns ==
    /\ pc = "return"
    /\ parse_ret' = ParseReturn(pdf_path, result, ocr_result)
    /\ pc' = "parse_done"
    /\ UNCHANGED <<pdf_path, result, ocr_result, native_calls, ocr_calls, pages>>
    /\ UNCHANGED <<headVars, classVars, valVars, batchVars>>

NextParse == ParseWithPdfminer \/ ParseWithOcr \/ ParseReturns

SpecParse == InitParse /\ [][NextParse]_vars

(***************************************************************************)
(* Spec: one run of main over an input directory                           *)
(***************************************************************************)
Init ==
    /\ pc = "main"
    /\ listing \in SUBSET FileNames
    /\ blocked \in SUBSET BlockedNames
    /\ pdf_files = <<>> /\ file_idx = 0
    /\ out_files = <<>> /\ all_parsed_data = <<>> /\ proc_ret = EmptyRecord
    /\ parsed_data = NoData /\ validated_data = EmptyRecord
    /\ HeadIdle /\ ClassIdle /\ NativeIdle /\ ParseIdle

\* main.py:120-126: discover and sort the PDF files; return if there are none
Discover ==
    /\ pc = "main"
    /\ pdf_files' = Sorted({f \in listing : IsPdfName(f)})
    /\ file_idx' = 1
    /\ pc' = IF pdf_files' = <<>> THEN "main_done" ELSE "process"
    /\ UNCHANGED <<listing, blocked, out_files, all_parsed_data, proc_ret>>
    /\ UNCHANGED <<headVars, classVars, valVars, nativeVars, parseVars>>

\* main.py:62: parser.parse(input_path) returns a record, or raises (the
\* print calls of parser.py:292 and 285 are outside, or in the handler of,
\* the try blocks)
CallParse ==
    /\ pc = "process"
    /\ \/ \E d \in BatchDocs :
             /\ parsed_data' = AsData(parse(InputPath(InputDir, pdf_files[file_idx]),
                                            d.layout, d.ocr))
             /\ pc' = "validate"
       \/ /\ parsed_data' = NoData
          /\ pc' = "except"
    /\ validated_data' = EmptyRecord
    /\ UNCHANGED batchVars
    /\ UNCHANGED <<headVars, classVars, nativeVars, parseVars>>

\* main.py:65
CallValidate ==
    /\ pc = "validate"
    /\ validated_data' = validate_json_output(parsed_data)
    /\ pc' = "write"
    /\ UNCHANGED parsed_data
    /\ UNCHANGED batchVars
    /\ UNCHANGED <<headVars, classVars, nativeVars, parseVars>>

\* main.py:68-78: open(output_path, 'w') and json.dump; open raises OSError
\* when the path cannot be opened for writing
WriteOutput ==
    /\ pc = "write"
    /\ LET name == OutputFilename(pdf_files[file_idx])
       IN  IF name \in blocked
           THEN /\ pc' = "except"
                /\ UNCHANGED <<out_files, proc_ret>>
           ELSE /\ out_files' = WriteFile(out_files, name, validated_data)
                /\ proc_ret' = validated_data
                /\ pc' = "append"
    /\ UNCHANGED <<listing, blocked, pdf_files, file_idx, all_parsed_data>>
    /\ UNCHANGED <<headVars, classVars, valVars, nativeVars, parseVars>>

\* main.py:80-88: the except handler writes the empty record; its own open
\* is not guarded, so an OSError there leaves process_single_pdf and main
HandleError ==
    /\ pc = "except"
    /\ LET name == OutputFilename(pdf_files[file_idx])
       IN  IF name \in blocked
           THEN /\ pc' = "crashed"
                /\ UNCHANGED <<out_files, proc_ret>>
           ELSE /\ out_files' = WriteFile(out_files, name, EmptyRecord)
                /\ proc_ret' = EmptyRecord
                /\ pc' = "append"
    /\ UNCHANGED <<listing, blocked, pdf_files, file_idx, all_parsed_data>>
    /\ UNCHANGED <<headVars, classVars, valVars, nativeVars, parseVars>>

\* main.py:142, 128: append the record and go to the next file
AppendRecord ==
    /\ pc = "append"
    /\ all_parsed_data' = Append(all_parsed_data, proc_ret)
    /\ file_idx' = file_idx + 1
    /\ pc' = IF file_idx < Len(pdf_files) THEN "process" ELSE "summary"
    /\ UNCHANGED <<listing, blocked, pdf_files, out_files, proc_ret>>
    /\ UNCHANGED <<headVars, classVars, valVars, nativeVars, parseVars>>

\* main.py:148-152: write the last record to output.json
WriteSummary ==
    /\ pc = "summary"
    /\ IF SummaryName \in blocked
       THEN /\ pc' = "crashed"
            /\ UNCHANGED out_files
       ELSE /\ out_files' = WriteFile(out_files, SummaryName,
                                     all_parsed_data[Len(all_parsed_data)])
            /\ pc' = "main_done"
    /\ UNCHANGED <<listing, blocked, pdf_files, file_idx, all_parsed_data, proc_ret>>
    /\ UNCHANGED <<headVars, classVars, valVars, nativeVars, parseVars>>

Next ==
    \/ Discover \/ CallParse \/ CallValidate \/ WriteOutput \/ HandleError
    \/ AppendRecord \/ WriteSummary

Spec == Init /\ [][Next]_vars

(***************************************************************************)
(* Properties                                                              *)
(***************************************************************************)
\* the buckets that pass the admission test against the top-count bucket
PassingSizes(fs) ==
    LET b == fs[BodyIndex(fs)]
    IN  {s \in BucketSizes(fs) :
            s * 100 > b.size * 115 /\ CountOf(fs, s) * 10 < b.count * 3}

\* C5: for a non-empty statistics map at most 3 sizes are admitted; the k-th
\* largest admitted size is mapped to Hk (so levels are consecutive from H1 and
\* sizes strictly decrease along H1, H2, H3); every admitted size is more than
\* 1.15 times the body size and has fewer words than 30% of the body bucket,
\* the body bucket being one with the highest word count.
C5_AtMostThreeOrderedAdmitted ==
    (pc = "classify_done" /\ font_stats # <<>>) =>
        LET m == heading_ret.heading_map
            body == heading_ret.body_font_size
        IN  /\ heading_ret.kind = "tuple"
            /\ body \in BucketSizes(font_stats)
            /\ \A s \in BucketSizes(font_stats) :
                   CountOf(font_stats, s) <= CountOf(font_stats, body)
            /\ DOMAIN m \subseteq BucketSizes(font_stats)
            /\ Cardinality(DOMAIN m) <= 3
            /\ \A s \in DOMAIN m :
                   /\ m[s] = LevelName[1 + Cardinality({t \in DOMAIN m : t > s})]
                   /\ s * 100 > body * 115
                   /\ CountOf(font_stats, s) * 10 < CountOf(font_stats, body) * 3

\* C5 witness: five buckets of which four pass the test, three admitted
C5_Witness ==
    /\ pc = "classify_done"
    /\ Cardinality(PassingSizes(font_stats)) = 4
    /\ Cardinality(DOMAIN heading_ret.heading_map) = 3

\* C6 as stated: no size smaller than a size that fails the admission test is
\* admitted (the walk stops at the first failing size).
C6_StrictPrefix ==
    pc = "classify_done" =>
        \A s \in DOMAIN heading_ret.heading_map :
            \A t \in BucketSizes(font_stats) :
                t > s => t \in PassingSizes(font_stats)

\* C6 amended: a size that fails the test is skipped and the walk goes on; the
\* admitted sizes are exactly the (at most three) largest sizes that pass.
C6_SkipFailingSizes ==
    (pc = "classify_done" /\ font_stats # <<>>) =>
        \A s \in BucketSizes(font_stats) :
            s \in DOMAIN heading_ret.heading_map <=>
                /\ s \in PassingSizes(font_stats)
                /\ Cardinality({t \in PassingSizes(font_stats) : t > s}) < 3

\* C6 witness: a size is admitted although a larger size failed the test
C6_Witness ==
    /\ pc = "classify_done"
    /\ \E s \in DOMAIN heading_ret.heading_map :
          \E t \in BucketSizes(font_stats) :
              t > s /\ t \notin PassingSizes(font_stats)

\* the items of the input outline the claim says are kept
KeptIndexes(outline) ==
    {i \in 1..Len(outline) :
        /\ outline[i].isdict
        /\ ItemKeys \subseteq outline[i].has
        /\ Str(outline[i].level) \in ValidLevels
        /\ Strip(Str(outline[i].text)) # <<>>}

\* C8: for a dict input the returned outline is, in the original order, exactly
\* the dict items that have level, text and page, a level of exactly H1, H2 or
\* H3 and a non-empty trimmed text; each kept item carries the trimmed text and
\* an integer page, 1 when the page is not numeric; no kept item has level H4.
C8_ValidatorKeepsExactlyValidItems ==
    (pc = "validate_done" /\ parsed_data.isdict /\ parsed_data.outline_is_list) =>
        LET inp == parsed_data.outline
            out == validated_data.outline
            K == KeptIndexes(inp)
            \* the index of the j-th kept item
            nth(j) == CHOOSE i \in K : Cardinality({k \in K : k < i}) = j - 1
        IN  /\ Len(out) = Cardinality(K)
            /\ \A j \in 1..Len(out) :
                  /\ \E d \in 1..3 :
                        /\ Str(inp[nth(j)].level) = <<"H", DigitSeq[d + 1]>>
                        /\ out[j].level = LevelName[d]
                  /\ out[j].text = Strip(Str(inp[nth(j)].text))
                  /\ out[j].text # <<>>
                  /\ out[j].page \in Int
                  /\ inp[nth(j)].page.t \in {"int", "bool"} =>
                        out[j].page = inp[nth(j)].page.n
                  /\ inp[nth(j)].page.t = "float" =>
                        /\ out[j].page * 10 <= inp[nth(j)].page.n
                        /\ inp[nth(j)].page.n < (out[j].page + 1) * 10
                  /\ inp[nth(j)].page.t \in {"str", "none"} => out[j].page = 1

\* C8 witness: an H4 item dropped and a kept item whose page "three" became 1
C8_Witness ==
    /\ pc = "validate_done"
    /\ parsed_data.isdict /\ parsed_data.outline_is_list
    /\ Len(parsed_data.outline) = 2
    /\ Str(parsed_data.outline[1].level) = <<"H","4">>
    /\ parsed_data.outline[2].page = PyStr(<<"t","h","r","e","e">>)
    /\ Len(validated_data.outline) = 1
    /\ validated_data.outline[1].page = 1

\* C9: every text that contains "@" and has trimmed length >= 2 is rejected,
\* whatever the sizes and whatever heading pattern it also matches.
C9_AtSignAlwaysRejected ==
    (pc = "heading_done" /\ "@" \in Range(h_text) /\ Len(Strip(h_text)) >= 2)
        => h_ret = FALSE

\* C1: whenever the native path ended with None and the OCR path completed and
\* returned the record with an empty title and an empty outline, parse returns
\* the record whose title is the file name without its extension and whose
\* outline is empty
C1_EmptyOcrRecordGivesFilenameTitle ==
    (pc = "parse_done" /\ result = None /\ ocr_calls = 1
        /\ ocr_result = Record(<<>>, <<>>))
    => parse_ret = Record(SplitExtRoot(Basename(pdf_path)), <<>>)

\* main has ended, by returning or by an exception that left it
MainEnded == pc \in {"main_done", "crashed"}

\* C2: when main has ended, every discovered document has a record file at its
\* output path and one record was produced for each discovered document,
\* whatever failed while the documents were processed
C2_NoErrorIsFatalToTheBatch ==
    MainEnded =>
        /\ Len(all_parsed_data) = Len(pdf_files)
        /\ \A i \in 1..Len(pdf_files) :
              OutputFilename(pdf_files[i]) \in DOMAIN out_files

\* C3: in every record parse returns, no two outline entries have the same
\* text and no outline entry's text is the record's title
C3_OutlineTextsUniqueAndNotTitle ==
    pc = "parse_done" =>
        /\ \A i, j \in 1..Len(parse_ret.outline) :
              i # j => parse_ret.outline[i].text # parse_ret.outline[j].text
        /\ \A i \in 1..Len(parse_ret.outline) :
              parse_ret.outline[i].text # parse_ret.title

\* parse has returned a titled record with several outline entries
C3_Witness ==
    /\ pc = "parse_done"
    /\ parse_ret.title # <<>>
    /\ Len(parse_ret.outline) >= 2

\* the document of the end-to-end example: exactly one block "Introduction",
\* on page 1 with dominant size 18; every other block with text has dominant
\* size 12; the heading's word count is below 30% of the body's
OneHeadingDocument ==
    /\ pc = "native_done"
    /\ ~pages.raises
    /\ LET live == {i \in 1..Len(pages.elems) : Live(pages.elems[i])}
           heads == {i \in live : Strip(pages.elems[i].text) = TIntroduction}
           body_words == Sum([i \in 1..Len(pages.elems) |->
                                 IF i \in live \ heads
                                 THEN WordCount(Strip(pages.elems[i].text))
                                 ELSE 0])
       IN  /\ Cardinality(heads) = 1
           /\ \A i \in heads : /\ pages.elems[i].page = 0
                               /\ DominantSize(pages.elems[i].chars) = 180
           /\ live \ heads # {}
           /\ \A i \in live \ heads : DominantSize(pages.elems[i].chars) = 120
           /\ 10 * WordCount(TIntroduction) < 3 * body_words

IntroductionEntry == [level |-> "H1", text |-> TIntroduction, page |-> 1]

\* C4 as stated: for the one-heading document the native path alone returns
\* an outline of exactly the entry {H1, "Introduction", 1}
C4_OneHeadingOneEntry ==
    OneHeadingDocument =>
        /\ ~NeedsOcr(result)
        /\ result.outline = <<IntroductionEntry>>

\* C4: for the one-heading document the native path alone returns an outline
\* of exactly the entry {H1, "Introduction", 1}, unless the title selector
\* chose "Introduction" as the title: then the outline is empty
C4_OneEntryUnlessTitle ==
    OneHeadingDocument =>
        /\ ~NeedsOcr(result)
        /\ result.outline = IF result.title = TIntroduction THEN <<>>
                            ELSE <<IntroductionEntry>>

\* a one-heading document whose title is the body text and whose outline is
\* the H1 entry
C4_Witness ==
    /\ OneHeadingDocument
    /\ result.title # TIntroduction
    /\ result.outline = <<IntroductionEntry>>

\* C7: for a document that has pages but no block with text and characters,
\* the classifier yields an empty heading map and the native path returns the
\* record with an empty title and an empty outline, not None
C7_EmptyStatisticsGiveEmptyRecord ==
    (pc = "native_done" /\ ~pages.raises /\ pages.npages >= 1
        /\ _extract_font_statistics(pages) = <<>>)
    => /\ _classify_heading_levels(_extract_font_statistics(pages)).heading_map
              = <<>>
       /\ result = Record(<<>>, <<>>)

\* C10: for every discovered file, when the native path and the OCR path both
\* ended with None, parse returns an empty outline and, as title, the base
\* name main uses for the document's <basename>.json output file
C10_FallbackTitleIsOutputBasename ==
    (pc = "parse_done" /\ result = None /\ ocr_calls = 1 /\ ocr_result = None)
    => /\ IsPdfName(Basename(pdf_path))
       /\ parse_ret.outline = <<>>
       /\ OutputFilename(Basename(pdf_path)) = parse_ret.title \o DotJson

\* C11: in every run of parse the native path is called first and exactly
\* once; the OCR path is called at most once, only after the native path has
\* returned, and exactly when the native path returned None or a record with
\* an empty title and an empty outline; a native record with a title or an
\* outline is returned unchanged, without a call of the OCR path
C11_NativeFirstOcrOnlyOnPoorResult ==
    /\ native_calls = (IF pc = "parse" THEN 0 ELSE 1)
    /\ ocr_calls \in {0, 1}
    /\ ocr_calls = 1 => (native_calls = 1 /\ NeedsOcr(result))
    /\ pc = "parse_done" =>
          /\ ocr_calls = 1 <=> (result.none \/ (result.title = <<>>
                                                /\ result.outline = <<>>))
          /\ (~result.none /\ (result.title # <<>> \/ result.outline # <<>>))
                => (parse_ret = result /\ ocr_calls = 0)

\* parse has returned after the native path gave a record with an empty title
\* and an empty outline and the OCR path was called
C11_Witness ==
    /\ pc = "parse_done"
    /\ ~result.none /\ result.title = <<>> /\ result.outline = <<>>
    /\ native_calls = 1 /\ ocr_calls = 1

\* C12: when main has finished the batch, for every discovered input the file
\* <basename>.json of the output directory holds the record produced for that
\* input: no other input's record and no summary has replaced it
C12_EveryOutputHoldsItsOwnRecord ==
    pc = "main_done" =>
        \A i \in 1..Len(pdf_files) :
            /\ OutputFilename(pdf_files[i]) \in DOMAIN out_files
            /\ out_files[OutputFilename(pdf_files[i])] = all_parsed_data[i]

\* C13: whenever the OCR path was called and returned a record, parse returns
\* exactly that record (same title, same outline entries in the same order),
\* both when the native path returned None and when it returned a record with
\* an empty title and an empty outline, which goes through the merge
C13_OcrRecordReturnedUnchanged ==
    (pc = "parse_done" /\ ocr_calls = 1 /\ ~ocr_result.none)
    => parse_ret = ocr_result

\* parse has returned through the merge branch with an OCR record that has a
\* title and several outline entries
C13_Witness ==
    /\ pc = "parse_done"
    /\ ocr_calls = 1
    /\ ~result.none
    /\ ~ocr_result.none /\ ocr_result.title # <<>>
    /\ Len(ocr_result.outline) >= 2
    /\ parse_ret = Merged(result, ocr_result)

====
